---- MODULE Spec2Model ----
(***************************************************************************)
(* The ZomboDB query DSL compiler, src/query_parser/dsl/mod.rs:            *)
(* expr_to_dsl, term_to_dsl, eq, range and regex as operators over a       *)
(* JSON-like value domain, and two specifications that apply them to       *)
(* inputs drawn from bounded sets.                                         *)
(*                                                                         *)
(* Encoding of values:                                                     *)
(*   - a Rust String is a sequence of one-character strings, so that       *)
(*     chars(), last(), filter().count() and slicing are computed;         *)
(*   - Option<T> is [tag |-> "None"] or [tag |-> "Some", val |-> x];       *)
(*   - an f32 boost n.0 is the integer n;                                  *)
(*   - a JSON object is a record (a function over its keys), a JSON array  *)
(*     a sequence, a JSON string the string's character sequence;          *)
(*   - a panic (panic!, expect, unimplemented!) is [panic |-> message]:    *)
(*     the call returns no JSON value.                                     *)
(***************************************************************************)
EXTENDS Integers, Sequences, FiniteSets, TLC

VARIABLES root, ignore_visibility, expr, field, term, opcode, result, pc

vars == <<root, ignore_visibility, expr, field, term, opcode, result, pc>>

----------------------------------------------------------------------------
(* Bounds of the model *)

\* longest string tried as a PhraseWithWildcard value
MaxStrLen == 3

\* most members of a ParsedArray
MaxArrayLen == 2

\* deepest nesting of combinators above a comparison node
MaxDepth == 2

----------------------------------------------------------------------------
(* Values *)

None == [tag |-> "None"]

Some(x) == [tag |-> "Some", val |-> x]

\* the literal 1.0 of b.unwrap_or(1.0)
DefaultBoost == 1

\* unwrap_or_default() in place of unwrap_or(1.0)
unwrap_or_zero(o, d) == IF o.tag = "Some" THEN o.val ELSE 0

unwrap_or(o, d) == IF o.tag = "Some" THEN o.val ELSE d

Panic(msg) == [panic |-> msg]

IsPanic(v) == "panic" \in DOMAIN v

Alphabet == {"a", "*", "?"}

Strs(n) == UNION {[1..k -> Alphabet] : k \in 0..n}

RECURSIVE SeqsUpTo(_, _)
SeqsUpTo(S, n) ==
  IF n = 0 THEN {<<>>}
  ELSE LET shorter == SeqsUpTo(S, n - 1)
       IN  shorter \cup {Append(q, x) : q \in {r \in shorter : Len(r) = n - 1}, x \in S}

----------------------------------------------------------------------------
(* Terms: crate::query_parser::ast::Term, as the encoder matches on it *)

Null == [kind |-> "Null"]

MatchAll == [kind |-> "MatchAll"]

String(s, b) == [kind |-> "String", s |-> s, b |-> b]

Phrase(s, b) == [kind |-> "Phrase", s |-> s, b |-> b]

PhraseWithWildcard(s, b) == [kind |-> "PhraseWithWildcard", s |-> s, b |-> b]

Wildcard(s, b) == [kind |-> "Wildcard", s |-> s, b |-> b]

Fuzzy(s, d, b) == [kind |-> "Fuzzy", s |-> s, d |-> d, b |-> b]

Range(s, e, b) == [kind |-> "Range", s |-> s, e |-> e, b |-> b]

Regex(s, b) == [kind |-> "Regex", s |-> s, b |-> b]

ParsedArray(v, b) == [kind |-> "ParsedArray", v |-> v, b |-> b]

\* QualifiedField::field_name(): the canonical backend field name
field_name(f) == f.field

----------------------------------------------------------------------------
(* The term encoder *)

\* s.chars().filter(|c| *c == ch).count()
CountChar(s, ch) == Cardinality({i \in 1..Len(s) : s[i] = ch})

\* only the first test of the condition
IsRightTruncated_EndsWithStar(s) == Len(s) > 0 /\ s[Len(s)] = "*"

\* the condition of lines 172-174
IsRightTruncated(s) ==
  /\ Len(s) > 0 /\ s[Len(s)] = "*"
  /\ CountChar(s, "*") = 1
  /\ CountChar(s, "?") = 0

\* s[..s.len()-1]
DropLast(s) == SubSeq(s, 1, Len(s) - 1)

\* the arm of Term::PhraseWithWildcard, lines 171-183
eqPhraseWithWildcard(f, t) ==
  IF IsRightTruncated(t.s)
  THEN [match_phrase_prefix |->
          (field_name(f) :> [query |-> DropLast(t.s), boost |-> unwrap_or(t.b, DefaultBoost)])]
  ELSE Panic("not implemented: phrases with non-right-truncated wildcards not supported yet")

\* the member kinds the loop of lines 197-207 hands to eq
ArrayClauseKinds == {"Phrase", "PhraseWithWildcard", "Wildcard", "Regex", "Fuzzy"}

\* without the clauses.len() == 1 shortcut
ArrayResult_AlwaysWrapped(f, strings, clauses) ==
  [bool |-> [should |-> IF strings # <<>>
                        THEN Append(clauses, [terms |-> (field_name(f) :> strings)])
                        ELSE clauses]]

\* lines 209-217: the terms clause is pushed last, a lone clause is returned bare
ArrayResult(f, strings, clauses) ==
  LET all == IF strings # <<>>
             THEN Append(clauses, [terms |-> (field_name(f) :> strings)])
             ELSE clauses
  IN  IF Len(all) = 1 THEN all[1] ELSE [bool |-> [should |-> all]]

RECURSIVE eq(_, _)
RECURSIVE ArrayLoop(_, _, _, _, _)

\* the for loop of lines 197-207 from member i on; a panic ends it at once
ArrayLoop(f, v, i, strings, clauses) ==
  IF i > Len(v) THEN ArrayResult(f, strings, clauses)
  ELSE LET t == v[i]
       IN  IF t.kind = "String" THEN ArrayLoop(f, v, i + 1, Append(strings, t.s), clauses)
           ELSE IF t.kind \in ArrayClauseKinds
           THEN LET c == eq(f, t)
                IN  IF IsPanic(c) THEN c
                    ELSE ArrayLoop(f, v, i + 1, strings, Append(clauses, c))
           ELSE Panic("unsupported term in an array")

eq(f, t) ==
  CASE t.kind = "Null" ->
         [bool |-> [must_not |-> << [exists |-> [field |-> field_name(f)]] >>]]
    [] t.kind = "MatchAll" ->
         [exists |-> [field |-> field_name(f)]]
    [] t.kind = "String" ->
         [term |-> (field_name(f) :> [value |-> t.s, boost |-> unwrap_or(t.b, DefaultBoost)])]
    [] t.kind = "Phrase" ->
         [match_phrase |-> (field_name(f) :> [query |-> t.s, boost |-> unwrap_or(t.b, DefaultBoost)])]
    [] t.kind = "PhraseWithWildcard" -> eqPhraseWithWildcard(f, t)
    [] t.kind = "Wildcard" ->
         [wildcard |-> (field_name(f) :> [value |-> t.s, boost |-> unwrap_or(t.b, DefaultBoost)])]
    [] t.kind = "Fuzzy" ->
         [fuzzy |-> (field_name(f) :>
            [value |-> t.s, prefix_length |-> t.d, boost |-> unwrap_or(t.b, DefaultBoost)])]
    [] t.kind = "Range" ->
         [range |-> (field_name(f) :>
            [gte |-> t.s, lte |-> t.e, boost |-> unwrap_or(t.b, DefaultBoost)])]
    [] t.kind = "ParsedArray" -> ArrayLoop(f, t.v, 1, <<>>, <<>>)
    [] OTHER -> Panic("unsupported Term")

\* fn range: Some((v, b)) for a Term::String, a panic otherwise
range(t) ==
  IF t.kind = "String" THEN [v |-> t.s, b |-> t.b]
  ELSE Panic("invalid term type for a range")

\* the json! of lines 137, 141, 145 and 149, with the bound key of the opcode
RangeLeaf(f, key, r) ==
  [range |-> (field_name(f) :> ((key :> r.v) @@ [boost |-> unwrap_or(r.b, DefaultBoost)]))]

\* the Gte and Lte arms pasted from Gt and Lt without changing the key
RangeKey_Pasted(op) ==
  CASE op = "Gt" -> "gt" [] op = "Lt" -> "lt" [] op = "Gte" -> "gt" [] op = "Lte" -> "lt"

\* the four range arms, lines 135-150
RangeKey(op) ==
  CASE op = "Gt" -> "gt" [] op = "Lt" -> "lt" [] op = "Gte" -> "gte" [] op = "Lte" -> "lte"

regex(f, t) ==
  IF t.kind = "Regex"
  THEN [regex |-> (field_name(f) :> [value |-> t.s, boost |-> unwrap_or(t.b, DefaultBoost)])]
  ELSE Panic("unsupported term for a regex query")

\* lines 129-131: the panic of eq unwinds through the json! macro
NotEq(f, t) ==
  LET e == eq(f, t)
  IN  IF IsPanic(e) THEN e ELSE [bool |-> [must_not |-> <<e>>]]

term_to_dsl(f, t, op) ==
  CASE op \in {"Contains", "Eq"} -> eq(f, t)
    [] op \in {"DoesNotContain", "Ne"} -> NotEq(f, t)
    [] op = "Regex" -> regex(f, t)
    [] op \in {"Gt", "Lt", "Gte", "Lte"} ->
         LET r == range(t)
         IN  IF IsPanic(r) THEN r ELSE RangeLeaf(f, RangeKey(op), r)
    [] OTHER -> Panic("unsupported opcode")

----------------------------------------------------------------------------
(* Index links, the catalog and the path finder *)

IndexLink(from, left, target, right) ==
  [from |-> from, left_field |-> left, qualified_index |-> target, right_field |-> right]

\* IndexLink::from_relation: the link that stands for the index itself
from_relation(idx) == IndexLink(idx, "", idx, "")

Indexes == {"A", "B", "C", "D", "E"}

\* the link options: A -> B -> C -> A is a cycle, A -> E, and D is linked to nothing
Edges ==
  << IndexLink("A", "b_id", "B", "id"),
     IndexLink("A", "e_id", "E", "id"),
     IndexLink("B", "c_id", "C", "pk"),
     IndexLink("C", "a_ref", "A", "a_pk") >>

\* the relation of E was dropped: open_index() fails on it
Openable == {"A", "B", "C", "D"}

\* IndexLink::open_index() returns Ok
open_index(link) == link.qualified_index \in Openable

\* ZDBIndexOptions::index_name(): the name of the backend index
index_name(idx) ==
  CASE idx = "A" -> "es.a" [] idx = "B" -> "es.b" [] idx = "C" -> "es.c"
    [] idx = "D" -> "es.d" [] idx = "E" -> "es.e"

\* IndexLink::from_zdb: the links of the topology the index belongs to
from_zdb(idx) == IF idx = "D" THEN <<>> ELSE Edges

\* build_visibility_clause: an opaque filter for the named backend index
build_visibility_clause(name) == [visibility |-> name]

\* breadth-first search: queue holds paths (sequences of links) from the
\* start, links are tried in their stable order, visited entities are skipped
RECURSIVE Bfs(_, _, _, _)
Bfs(links, target, queue, visited) ==
  IF queue = <<>> THEN None
  ELSE LET path == Head(queue)
           at   == path[Len(path)].qualified_index
           IsNew(l) == l.from = at /\ l.qualified_index \notin visited
           out  == SelectSeq(links, IsNew)
           more == [k \in 1..Len(out) |-> Append(path, out[k])]
       IN  IF at = target THEN Some(Tail(path))
           ELSE Bfs(links, target, Tail(queue) \o more,
                    visited \cup {out[k].qualified_index : k \in 1..Len(out)})

\* PathFinder::find_path(root, target): the hops from the root to the target,
\* nearest the root first; Some(<<>>) when the target is the root itself
find_path(links, r, target) ==
  Bfs(links, target, << <<r>> >>, {r.qualified_index})

----------------------------------------------------------------------------
(* Expressions: crate::query_parser::ast::Expr *)

Cmp(kind, f, t) == [kind |-> kind, f |-> f, t |-> t]

List(kind, v) == [kind |-> kind, v |-> v]

Not(e) == [kind |-> "Not", e |-> e]

Linked(i, e) == [kind |-> "Linked", i |-> i, e |-> e]

ListKinds == {"WithList", "AndList", "OrList"}

\* the nested path a field name lies under, "" for a top-level field
FieldPath(name) ==
  CASE name \in {"data.a", "data.b"} -> "data"
    [] name = "other.c" -> "other"
    [] OTHER -> ""

\* the nested paths of the fields an expression compares
RECURSIVE ExprPaths(_)
ExprPaths(e) ==
  CASE e.kind \in ListKinds -> UNION {ExprPaths(e.v[k]) : k \in 1..Len(e.v)}
    [] e.kind \in {"Not", "Linked"} -> ExprPaths(e.e)
    [] OTHER -> {FieldPath(field_name(e.f))}

\* Expr::nested_path: the one nested path all children share
nested_path(v) ==
  LET paths == UNION {ExprPaths(v[k]) : k \in 1..Len(v)}
  IN  IF Cardinality(paths) = 1 /\ "" \notin paths
      THEN Some(CHOOSE p \in paths : TRUE)
      ELSE None

----------------------------------------------------------------------------
(* The expression compiler *)

\* lines 86-111 for one hop whose index opens; ZDB_IGNORE_VISIBILITY.get()
\* reads the setting
FoldStep_IgnoresSetting(path, current) ==
  [subselect |->
     [index |-> index_name(path.qualified_index),
      type |-> "_doc",
      left_fieldname |-> path.left_field,
      right_fieldname |-> path.right_field,
      query |-> [bool |-> [must |-> <<current>>,
                           filter |-> <<build_visibility_clause(
                                          index_name(path.qualified_index))>>]]]]

FoldStep(path, current) ==
  LET query == IF ignore_visibility THEN current
               ELSE [bool |-> [must |-> <<current>>,
                               filter |-> <<build_visibility_clause(
                                              index_name(path.qualified_index))>>]]
  IN  [subselect |->
         [index |-> index_name(path.qualified_index),
          type |-> "_doc",
          left_fieldname |-> path.left_field,
          right_fieldname |-> path.right_field,
          query |-> query]]

\* the hops taken from the front of the path, the root end
RECURSIVE Fold_FromRoot(_, _)
Fold_FromRoot(paths, current) ==
  IF paths = <<>> THEN current
  ELSE IF ~open_index(Head(paths)) THEN Panic("failed to open index")
  ELSE Fold_FromRoot(Tail(paths), FoldStep(Head(paths), current))

\* while let Some(path) = paths.pop(), lines 85-112: pop() takes the last hop
RECURSIVE Fold(_, _)
Fold(paths, current) ==
  IF paths = <<>> THEN current
  ELSE LET path == paths[Len(paths)]
       IN  IF ~open_index(path) THEN Panic("failed to open index")
           ELSE Fold(SubSeq(paths, 1, Len(paths) - 1), FoldStep(path, current))

RECURSIVE expr_to_dsl(_, _)

\* a best-effort map that leaves out the children that fail
RECURSIVE CompileAll_DropFailed(_, _)
CompileAll_DropFailed(r, v) ==
  IF v = <<>> THEN [dsl |-> <<>>]
  ELSE LET h == expr_to_dsl(r, Head(v))
           t == CompileAll_DropFailed(r, Tail(v))
       IN  IF IsPanic(h) THEN t ELSE [dsl |-> <<h>> \o t.dsl]

\* v.iter().map(|v| expr_to_dsl(root, v)).collect(): the first panic unwinds
RECURSIVE CompileAll(_, _)
CompileAll(r, v) ==
  IF v = <<>> THEN [dsl |-> <<>>]
  ELSE LET h == expr_to_dsl(r, Head(v))
       IN  IF IsPanic(h) THEN h
           ELSE LET t == CompileAll(r, Tail(v))
                IN  IF IsPanic(t) THEN t ELSE [dsl |-> <<h>> \o t.dsl]

\* the children compiled before the nested path is looked at
with_list_ChildrenFirst(r, v) ==
  LET c == CompileAll(r, v)
      path == nested_path(v)
  IN  IF IsPanic(c) THEN c
      ELSE IF path = None THEN Panic("could not determine nested path")
      ELSE [nested |-> [path |-> path.val, query |-> [bool |-> [must |-> c.dsl]]]]

\* the arm of Expr::WithList, lines 38-46
with_list(r, v) ==
  LET path == nested_path(v)
  IN  IF path = None THEN Panic("could not determine nested path")
      ELSE LET c == CompileAll(r, v)
           IN  IF IsPanic(c) THEN c
               ELSE [nested |-> [path |-> path.val, query |-> [bool |-> [must |-> c.dsl]]]]

\* the arm of Expr::Linked, lines 70-115
linked(r, i, e) ==
  IF ~open_index(r) THEN Panic("failed to open index")
  ELSE LET paths == find_path(from_zdb(r.qualified_index), r, i.qualified_index)
       IN  IF paths = None THEN Panic("no index link path")
           ELSE LET current == expr_to_dsl(r, e)
                IN  IF IsPanic(current) THEN current
                    ELSE Fold(paths.val, current)

expr_to_dsl(r, e) ==
  CASE e.kind = "WithList" -> with_list(r, e.v)
    [] e.kind = "AndList" ->
         LET c == CompileAll(r, e.v)
         IN  IF IsPanic(c) THEN c ELSE [bool |-> [must |-> c.dsl]]
    [] e.kind = "OrList" ->
         LET c == CompileAll(r, e.v)
         IN  IF IsPanic(c) THEN c ELSE [bool |-> [should |-> c.dsl]]
    [] e.kind = "Not" ->
         LET c == expr_to_dsl(r, e.e)
         IN  IF IsPanic(c) THEN c ELSE [bool |-> [must_not |-> <<c>>]]
    [] e.kind \in {"Contains", "Eq"} -> term_to_dsl(e.f, e.t, "Contains")
    [] e.kind \in {"DoesNotContain", "Ne"} -> term_to_dsl(e.f, e.t, "DoesNotContain")
    [] e.kind = "Regex" -> term_to_dsl(e.f, e.t, "Regex")
    [] e.kind = "Gt" -> term_to_dsl(e.f, e.t, "Gt")
    [] e.kind = "Gte" -> term_to_dsl(e.f, e.t, "Gte")
    [] e.kind = "Lt" -> term_to_dsl(e.f, e.t, "Lt")
    [] e.kind = "Lte" -> term_to_dsl(e.f, e.t, "Lte")
    [] e.kind = "Linked" -> linked(r, e.i, e.e)
    [] OTHER -> Panic("unsupported Expression")

----------------------------------------------------------------------------
(* Inputs of the term encoder *)

Boosts == {None, Some(1), Some(2)}

SimpleStrs == {<<"a">>, <<"b">>}

Opcodes ==
  {"Contains", "Eq", "DoesNotContain", "Ne", "Regex", "Gt", "Lt", "Gte", "Lte",
   "MoreLikeThis", "FuzzyLikeThis"}

EqOpcodes == {"Contains", "Eq"}

RangeOpcodes == {"Gt", "Lt", "Gte", "Lte"}

TermFields == {[index |-> "A", field |-> "title"], [index |-> "A", field |-> "data.a"]}

ScalarTerms ==
  {Null, MatchAll}
  \cup {String(s, b) : s \in SimpleStrs, b \in Boosts}
  \cup {Phrase(s, b) : s \in SimpleStrs, b \in Boosts}
  \cup {PhraseWithWildcard(s, b) : s \in Strs(MaxStrLen), b \in Boosts}
  \cup {Wildcard(s, b) : s \in {<<"b", "*">>}, b \in Boosts}
  \cup {Fuzzy(s, d, b) : s \in {<<"a">>}, d \in {0, 2}, b \in Boosts}
  \cup {Range(s, e, b) : s \in {<<"a">>}, e \in SimpleStrs, b \in Boosts}
  \cup {Regex(s, b) : s \in {<<"a", "*">>}, b \in Boosts}

\* the members tried inside a ParsedArray
MemberTerms ==
  {Null, String(<<"a">>, None), String(<<"b">>, Some(2)),
   Phrase(<<"a">>, None), PhraseWithWildcard(<<"a", "*">>, Some(2)),
   PhraseWithWildcard(<<"*", "a">>, None), Wildcard(<<"b", "*">>, None),
   Fuzzy(<<"a">>, 2, None), Regex(<<"a", "*">>, None),
   Range(<<"a">>, <<"b">>, None), ParsedArray(<<>>, None)}

ArrayTerms == {ParsedArray(v, b) : v \in SeqsUpTo(MemberTerms, MaxArrayLen), b \in {None, Some(2)}}

Terms == ScalarTerms \cup ArrayTerms

----------------------------------------------------------------------------
(* Specification of the term encoder: one call of term_to_dsl *)

NoExpr == [kind |-> "None"]

InitTerm ==
  /\ field \in TermFields
  /\ term \in Terms
  /\ opcode \in Opcodes
  /\ root = from_relation("A")
  /\ ignore_visibility = FALSE
  /\ expr = NoExpr
  /\ result = None
  /\ pc = "start"

TermToDsl ==
  /\ pc = "start"
  /\ result' = term_to_dsl(field, term, opcode)
  /\ pc' = "done"
  /\ UNCHANGED <<root, ignore_visibility, expr, field, term, opcode>>

NextTerm == TermToDsl

SpecTerm == InitTerm /\ [][NextTerm]_vars

----------------------------------------------------------------------------
(* Inputs of the expression compiler *)

QField(idx, name) == [index |-> idx, field |-> name]

\* comparison nodes: three that encode, a term-kind mismatch, a malformed
\* wildcard phrase and a node kind the compiler has no arm for
Leaves ==
  {Cmp("Eq", QField("A", "data.a"), String(<<"a">>, None)),
   Cmp("Gt", QField("A", "data.b"), String(<<"a">>, Some(2))),
   Cmp("Ne", QField("A", "title"), Null),
   Cmp("Regex", QField("A", "other.c"), String(<<"a">>, None)),
   Cmp("Contains", QField("A", "title"), PhraseWithWildcard(<<"*", "a">>, None)),
   Cmp("MoreLikeThis", QField("A", "title"), String(<<"a">>, None))}

\* the siblings put beside a subtree in a list
PadLeaves ==
  {Cmp("Eq", QField("A", "data.a"), String(<<"a">>, None)),
   Cmp("Regex", QField("A", "other.c"), String(<<"a">>, None))}

LinkTargets == {from_relation(idx) : idx \in {"A", "B", "C", "E"}}

Roots == {from_relation(idx) : idx \in {"A", "B", "D", "E"}}

\* the nodes that have e as a child
Wrap(e) ==
  {Not(e)}
  \cup {Linked(i, e) : i \in LinkTargets}
  \cup {List(k, <<e>>) : k \in ListKinds}
  \cup {List(k, <<e, l>>) : k \in ListKinds, l \in PadLeaves}
  \cup {List(k, <<l, e>>) : k \in ListKinds, l \in PadLeaves}

\* the expressions with exactly d combinators above the deepest comparison
RECURSIVE ExprsAt(_)
ExprsAt(d) == IF d = 0 THEN Leaves ELSE UNION {Wrap(e) : e \in ExprsAt(d - 1)}

Exprs == UNION {ExprsAt(d) : d \in 0..MaxDepth}

----------------------------------------------------------------------------
(* Specification of the expression compiler: one call of expr_to_dsl *)

NoTerm == [kind |-> "None"]

Init ==
  /\ root \in Roots
  /\ ignore_visibility \in BOOLEAN
  /\ expr \in Exprs
  /\ field = QField("A", "title")
  /\ term = NoTerm
  /\ opcode = "None"
  /\ result = None
  /\ pc = "start"

ExprToDsl ==
  /\ pc = "start"
  /\ result' = expr_to_dsl(root, expr)
  /\ pc' = "done"
  /\ UNCHANGED <<root, ignore_visibility, expr, field, term, opcode>>

Next == ExprToDsl

Spec == Init /\ [][Next]_vars

----------------------------------------------------------------------------
(* Properties of the term encoder, checked under SpecTerm *)

TermDone == pc = "done" /\ expr = NoExpr

FName == field_name(field)

\* the clauses of an "any of" container, or the lone clause
ClausesOf(v) == IF "bool" \in DOMAIN v THEN v.bool.should ELSE <<v>>

IsOtherTerm(t) == t.kind # "String"

\* the leaf type each term kind is encoded to by the equality encoding
LeafKey(kind) ==
  CASE kind = "String" -> "term"
    [] kind = "Phrase" -> "match_phrase"
    [] kind = "PhraseWithWildcard" -> "match_phrase_prefix"
    [] kind = "Wildcard" -> "wildcard"
    [] kind = "Fuzzy" -> "fuzzy"
    [] kind = "Range" -> "range"
    [] kind = "Regex" -> "regex"

\* the String values of the members, in input order
RECURSIVE StringValues(_)
StringValues(v) ==
  IF v = <<>> THEN <<>>
  ELSE IF Head(v).kind = "String" THEN <<Head(v).s>> \o StringValues(Tail(v))
  ELSE StringValues(Tail(v))

\* C5: an encoded ParsedArray has one clause per non-string member plus one
\* terms leaf listing the String members' values in input order (when there
\* is any); exactly one clause is returned bare, any other count (0 too) is
\* wrapped in one {bool: {should: [...]}} container.
C5_ArrayPartition ==
  (TermDone /\ term.kind = "ParsedArray" /\ opcode \in EqOpcodes /\ ~IsPanic(result)) =>
    LET others  == SelectSeq(term.v, IsOtherTerm)
        strings == StringValues(term.v)
        count   == Len(others) + (IF strings # <<>> THEN 1 ELSE 0)
        clauses == ClausesOf(result)
        leaf    == [terms |-> (FName :> strings)]
    IN  /\ ("bool" \in DOMAIN result) <=> (count # 1)
        /\ "bool" \in DOMAIN result =>
             /\ DOMAIN result = {"bool"}
             /\ DOMAIN result.bool = {"should"}
        /\ Len(clauses) = count
        /\ Cardinality({i \in 1..Len(clauses) : "terms" \in DOMAIN clauses[i]})
             = (IF strings # <<>> THEN 1 ELSE 0)
        /\ strings # <<>> => \E i \in 1..Len(clauses) : clauses[i] = leaf
        /\ \A i \in 1..Len(others) : DOMAIN clauses[i] = {LeafKey(others[i].kind)}

\* an all-string array became a bare terms leaf, and [String a, Wildcard b*]
\* a should container of two clauses
C5_Witness ==
  /\ TermDone /\ opcode = "Contains"
  /\ term = ParsedArray(<<String(<<"a">>, None), Wildcard(<<"b", "*">>, None)>>, None)
  /\ "bool" \in DOMAIN result
  /\ Len(result.bool.should) = 2
  /\ "wildcard" \in DOMAIN result.bool.should[1]
  /\ result.bool.should[2] = [terms |-> (FName :> << <<"a">> >>)]

\* the value a leaf's boost key must carry for a term with boost b
BoostOf(b) == IF b = None THEN 1 ELSE b.val

\* the object under the field name of a leaf {type: {field: {...}}}
LeafBody(l) == l[CHOOSE k \in DOMAIN l : TRUE][FName]

\* a terms leaf holds an array and an exists leaf a field name: no boost key
LeafHasBoost(l) ==
  /\ DOMAIN l \cap {"terms", "exists", "bool"} = {}
  /\ "boost" \in DOMAIN LeafBody(l)

\* the leaves of an encoded term: under DoesNotContain/Ne inside must_not
TermLeaves(v) ==
  IF "bool" \in DOMAIN v /\ "must_not" \in DOMAIN v.bool
  THEN ClausesOf(v.bool.must_not[1])
  ELSE ClausesOf(v)

CarriesBoost(t) == t.kind \notin {"Null", "MatchAll"}

\* C6 as stated: every leaf encoded from a boost-carrying term has a boost
\* key, with value 1.0 when the term's boost is None.
C6_Original ==
  (TermDone /\ CarriesBoost(term) /\ ~IsPanic(result)) =>
    \A i \in 1..Len(TermLeaves(result)) :
      LET l == TermLeaves(result)[i]
      IN  /\ LeafHasBoost(l)
          /\ (term.kind # "ParsedArray" /\ term.b = None) => LeafBody(l).boost = 1

\* C6 amended: a boost-carrying term encoded as a leaf of its own (a scalar
\* term, or a non-String member of a ParsedArray) gets a boost key holding
\* its boost, 1.0 when None; the terms leaf of a ParsedArray's String
\* members has no boost key.
C6_BoostDefault ==
  (TermDone /\ CarriesBoost(term) /\ ~IsPanic(result)) =>
    LET leaves == TermLeaves(result)
        src    == IF term.kind = "ParsedArray" THEN SelectSeq(term.v, IsOtherTerm)
                  ELSE <<term>>
    IN  /\ \A i \in 1..Len(src) :
             /\ LeafHasBoost(leaves[i])
             /\ LeafBody(leaves[i]).boost = BoostOf(src[i].b)
        /\ \A i \in 1..Len(leaves) :
             i > Len(src) => /\ "terms" \in DOMAIN leaves[i]
                             /\ ~LeafHasBoost(leaves[i])

\* a Fuzzy term with no boost was encoded under Ne, and its leaf has boost 1
C6_Witness ==
  /\ TermDone /\ opcode = "Ne" /\ term.kind = "Fuzzy" /\ term.b = None
  /\ ~IsPanic(result)
  /\ result.bool.must_not[1].fuzzy[FName].boost = 1

\* C7: PhraseWithWildcard(s, b) is encoded exactly when s is q followed by
\* '*' with no '*' and no '?' in q, as a match_phrase_prefix leaf on q; every
\* other s is an unimplemented!() abort.
C7_PhraseWithWildcard ==
  (TermDone /\ term.kind = "PhraseWithWildcard" /\ opcode \in EqOpcodes) =>
    LET Plain(q) == \A i \in 1..Len(q) : q[i] \notin {"*", "?"}
        prefixes == {q \in Strs(MaxStrLen) : Plain(q) /\ term.s = q \o <<"*">>}
    IN  IF prefixes # {}
        THEN /\ DOMAIN result = {"match_phrase_prefix"}
             /\ DOMAIN result.match_phrase_prefix = {FName}
             /\ result.match_phrase_prefix[FName].query \in prefixes
        ELSE result = Panic("not implemented: phrases with non-right-truncated wildcards not supported yet")

\* "aa*" gave a phrase-prefix leaf on "aa"
C7_Witness ==
  /\ TermDone /\ opcode = "Eq"
  /\ term.kind = "PhraseWithWildcard" /\ term.s = <<"a", "a", "*">>
  /\ ~IsPanic(result)
  /\ result.match_phrase_prefix[FName].query = <<"a", "a">>

\* C8: under Gt, Gte, Lt, Lte a Term::String(v, b) becomes a range leaf whose
\* keys are the opcode's bound, holding v, and boost, holding b or 1.0; any
\* other term is a term-kind mismatch abort.
C8_RangeOpcodes ==
  (TermDone /\ opcode \in RangeOpcodes) =>
    LET key == CASE opcode = "Gt" -> "gt" [] opcode = "Gte" -> "gte"
                 [] opcode = "Lt" -> "lt" [] opcode = "Lte" -> "lte"
    IN  IF term.kind = "String"
        THEN /\ DOMAIN result = {"range"}
             /\ DOMAIN result.range = {FName}
             /\ DOMAIN result.range[FName] = {key, "boost"}
             /\ result.range[FName][key] = term.s
             /\ result.range[FName].boost = BoostOf(term.b)
        ELSE result = Panic("invalid term type for a range")

\* Gte on a String with no boost gave {gte: v, boost: 1}
C8_Witness ==
  /\ TermDone /\ opcode = "Gte" /\ term = String(<<"a">>, None)
  /\ ~IsPanic(result)
  /\ result.range[FName] = [gte |-> <<"a">>, boost |-> 1]

\* C10 as stated: a ParsedArray is encoded exactly when every member is a
\* String, a Phrase, a Wildcard, a Regex, a Fuzzy, or a PhraseWithWildcard
\* with a single trailing '*'.
C10_Original ==
  (TermDone /\ term.kind = "ParsedArray" /\ opcode \in EqOpcodes) =>
    (~IsPanic(result) <=>
       \A i \in 1..Len(term.v) :
         \/ term.v[i].kind \in {"String", "Phrase", "Wildcard", "Regex", "Fuzzy"}
         \/ /\ term.v[i].kind = "PhraseWithWildcard"
            /\ IsRightTruncated(term.v[i].s))

----------------------------------------------------------------------------
(* Properties of the expression compiler, checked under Spec *)

ExprDone == pc = "done" /\ term = NoTerm

\* the hops h1..hn of the path from the root to the target of a Linked node
Hops(r, e) == find_path(from_zdb(r.qualified_index), r, e.i.qualified_index).val

\* the query of a subselect container, without its visibility wrapper
Unwrapped(c) ==
  IF ignore_visibility THEN c.subselect.query ELSE c.subselect.query.bool.must[1]

\* what lies k containers deep in v
RECURSIVE Peel(_, _)
Peel(v, k) == IF k = 0 THEN v ELSE Peel(Unwrapped(v), k - 1)

LinkedDone == ExprDone /\ expr.kind = "Linked" /\ ~IsPanic(result)

\* C1: a Linked node over a path of n hops compiles to n nested subselect
\* containers, the k-th from outside carrying the backend index name and the
\* left and right field of hop k and type "_doc", the innermost holding the
\* compiled child; with n = 0 it is the child compiled against the root.
C1_NestedSubselects ==
  LinkedDone =>
    LET hops == Hops(root, expr)
        n    == Len(hops)
    IN  /\ \A k \in 1..n :
             LET c == Peel(result, k - 1)
             IN  /\ DOMAIN c = {"subselect"}
                 /\ c.subselect.index = index_name(hops[k].qualified_index)
                 /\ c.subselect.type = "_doc"
                 /\ c.subselect.left_fieldname = hops[k].left_field
                 /\ c.subselect.right_fieldname = hops[k].right_field
        /\ \E r \in Roots \cup LinkTargets : Peel(result, n) = expr_to_dsl(r, expr.e)
        /\ n = 0 => result = expr_to_dsl(root, expr.e)

\* from B the path to A has the two hops B -> C -> A
C1_Witness ==
  /\ LinkedDone
  /\ root.qualified_index = "B" /\ expr.i.qualified_index = "A"
  /\ expr.e.kind = "Eq"
  /\ result.subselect.index = "es.c"
  /\ Unwrapped(result).subselect.index = "es.a"
  /\ "term" \in DOMAIN Unwrapped(Unwrapped(result))

\* C2: with visibility filtering on, the query of every subselect container
\* is {bool: {must: [inner], filter: [the visibility clause of that hop's
\* backend index]}}; with it off the query is the inner query itself, the
\* next container or the compiled child, and no hop has a filter.
C2_VisibilityPerHop ==
  LinkedDone =>
    LET hops == Hops(root, expr)
        n    == Len(hops)
        Query(k) == Peel(result, k - 1).subselect.query
        Compiled == {expr_to_dsl(r, expr.e) : r \in Roots \cup LinkTargets}
        Inner(k, q) == IF k < n
                       THEN /\ DOMAIN q = {"subselect"}
                            /\ q.subselect.index = index_name(hops[k + 1].qualified_index)
                       ELSE q \in Compiled
    IN  \A k \in 1..n :
          IF ignore_visibility
          THEN Inner(k, Query(k))
          ELSE /\ DOMAIN Query(k) = {"bool"}
               /\ DOMAIN Query(k).bool = {"must", "filter"}
               /\ Len(Query(k).bool.must) = 1
               /\ Inner(k, Query(k).bool.must[1])
               /\ Query(k).bool.filter =
                    <<build_visibility_clause(index_name(hops[k].qualified_index))>>

\* a two-hop path with visibility filtering on: one filter per hop
C2_Witness ==
  /\ LinkedDone /\ ~ignore_visibility
  /\ root.qualified_index = "A" /\ expr.i.qualified_index = "C"
  /\ result.subselect.query.bool.filter = <<[visibility |-> "es.b"]>>
  /\ Unwrapped(result).subselect.query.bool.filter = <<[visibility |-> "es.c"]>>

\* C3 as stated: below at least one hop the child is compiled with the
\* target entity as its root.
C3_Original ==
  LinkedDone =>
    LET hops == Hops(root, expr)
        n    == Len(hops)
    IN  n >= 1 => Peel(result, n) = expr_to_dsl(hops[n], expr.e)

\* the subexpressions of an expression, itself included
RECURSIVE Nodes(_)
Nodes(e) ==
  {e} \cup
  (CASE e.kind \in ListKinds -> UNION {Nodes(e.v[k]) : k \in 1..Len(e.v)}
     [] e.kind \in {"Not", "Linked"} -> Nodes(e.e)
     [] OTHER -> {})

CmpKinds ==
  {"Contains", "Eq", "DoesNotContain", "Ne", "Regex", "Gt", "Gte", "Lt", "Lte"}

OpcodeOf(kind) ==
  CASE kind = "Eq" -> "Contains" [] kind = "Ne" -> "DoesNotContain" [] OTHER -> kind

\* the fatal conditions of one node, its children left aside
Fatal(r, e) ==
  CASE e.kind = "WithList" -> nested_path(e.v) = None
    [] e.kind \in {"AndList", "OrList", "Not"} -> FALSE
    [] e.kind = "Linked" ->
         \/ ~open_index(r)
         \/ LET p == find_path(from_zdb(r.qualified_index), r, e.i.qualified_index)
            IN  \/ p = None
                \/ p # None /\ \E k \in 1..Len(p.val) : ~open_index(p.val[k])
    [] e.kind \in CmpKinds -> IsPanic(term_to_dsl(e.f, e.t, OpcodeOf(e.kind)))
    [] OTHER -> TRUE

\* C4: when any node of the tree hits a fatal condition no query is
\* returned, and a returned list container has one clause per child.
C4_AllOrNothing ==
  ExprDone =>
    /\ (\E e \in Nodes(expr) : Fatal(root, e)) => IsPanic(result)
    /\ (expr.kind \in {"AndList", "OrList"} /\ ~IsPanic(result)) =>
         \E key \in {"must", "should"} :
           /\ DOMAIN result.bool = {key}
           /\ Len(result.bool[key]) = Len(expr.v)

\* a failing comparison two levels down, as the second child of its list,
\* aborted the whole compilation
C4_Witness ==
  /\ ExprDone /\ expr.kind = "Not" /\ expr.e.kind = "OrList"
  /\ Len(expr.e.v) = 2
  /\ ~Fatal(root, expr.e.v[1]) /\ Fatal(root, expr.e.v[2])
  /\ IsPanic(result)

\* C9: a WithList whose nested path cannot be determined aborts with that
\* error, whatever its children; otherwise a result is one nested container
\* with that path over {bool: {must: [the children compiled against the
\* root of the WithList, in order]}}.
C9_WithList ==
  (ExprDone /\ expr.kind = "WithList") =>
    LET path == nested_path(expr.v)
    IN  IF path = None
        THEN result = Panic("could not determine nested path")
        ELSE IF \E k \in 1..Len(expr.v) : IsPanic(expr_to_dsl(root, expr.v[k]))
        THEN IsPanic(result)
        ELSE /\ DOMAIN result = {"nested"}
             /\ DOMAIN result.nested = {"path", "query"}
             /\ result.nested.path = path.val
             /\ DOMAIN result.nested.query = {"bool"}
             /\ DOMAIN result.nested.query.bool = {"must"}
             /\ Len(result.nested.query.bool.must) = Len(expr.v)
             /\ \A k \in 1..Len(expr.v) :
                  result.nested.query.bool.must[k] = expr_to_dsl(root, expr.v[k])

\* two children under the nested path "data" became one nested container
C9_Witness ==
  /\ ExprDone /\ expr.kind = "WithList" /\ Len(expr.v) = 2
  /\ expr.v[1].kind = "Gt" /\ expr.v[2].kind = "Eq"
  /\ ~IsPanic(result)
  /\ result.nested.path = "data"
  /\ "range" \in DOMAIN result.nested.query.bool.must[1]
  /\ "term" \in DOMAIN result.nested.query.bool.must[2]

====
